---- MODULE Spec2Model ----
(***************************************************************************)
(* Model of praw/models/reddit/rules.py: the Rule entity (lazy stub or     *)
(* data-built), the SubredditRules collection, and the remote rule list    *)
(* they talk to.  Text values are sequences of one-character strings so    *)
(* that joining and percent-encoding are computed, not assumed.            *)
(***************************************************************************)
EXTENDS Integers, Sequences, FiniteSets, TLC

VARIABLES server, clock, objs, last, nOps, nIter, nListReq

vars == <<server, clock, objs, last, nOps, nIter, nListReq>>

(* ---------------- bounds ---------------- *)
MaxOps == 3
MaxObjs == 2
MaxRules == 2

(* ---------------- small value sets ---------------- *)
Sub == <<"s">>
NoValue == "None"

AllNames == << <<"A">>, <<"a", " ", "b">>, <<"a">> >>
Names == {AllNames[i] : i \in 1..Len(AllNames)}

Kinds == {"link", "comment", "all"}
ReadAttrs == {"short_name", "description", "flair"}

Min(S) == CHOOSE x \in S : \A y \in S : x <= y

(* ---------------- text helpers ---------------- *)
RECURSIVE Join(_, _)
Join(sep, parts) ==
  IF parts = <<>> THEN <<>>
  ELSE IF Len(parts) = 1 THEN parts[1]
  ELSE parts[1] \o sep \o Join(sep, Tail(parts))

AlwaysSafe == {"A", "a", "b", "d", "v", "s", "0", "2", "5", "C", "_", ".", "-", "~"}

PctCode(c) ==
  CASE c = " " -> <<"%", "2", "0">>
    [] c = "%" -> <<"%", "2", "5">>
    [] c = "," -> <<"%", "2", "C">>
    [] OTHER   -> <<"%", "3", "F">>

RECURSIVE quote(_, _)
quote(s, safe) ==
  IF s = <<>> THEN <<>>
  ELSE (IF Head(s) \in AlwaysSafe \cup safe THEN <<Head(s)>> ELSE PctCode(Head(s)))
       \o quote(Tail(s), safe)

PctChar(h1, h2) ==
  CASE h1 = "2" /\ h2 = "0" -> " "
    [] h1 = "2" /\ h2 = "5" -> "%"
    [] h1 = "2" /\ h2 = "C" -> ","
    [] OTHER -> "?"

RECURSIVE Unquote(_)
Unquote(s) ==
  IF s = <<>> THEN <<>>
  ELSE IF Head(s) = "%" /\ Len(s) >= 3
       THEN <<PctChar(s[2], s[3])>> \o Unquote(SubSeq(s, 4, Len(s)))
       ELSE <<Head(s)>> \o Unquote(Tail(s))

RECURSIVE SplitAcc(_, _, _)
SplitAcc(s, cur, acc) ==
  IF s = <<>> THEN Append(acc, cur)
  ELSE IF Head(s) = "," THEN SplitAcc(Tail(s), <<>>, Append(acc, cur))
  ELSE SplitAcc(Tail(s), Append(cur, Head(s)), acc)

SplitComma(s) == IF s = <<>> THEN <<>> ELSE SplitAcc(s, <<>>, <<>>)

(* ---------------- the remote service ---------------- *)
NamesOf(lst) == [i \in 1..Len(lst) |-> lst[i]["short_name"]]
NameSet(lst) == {lst[i]["short_name"] : i \in 1..Len(lst)}

RuleData(n, k, d, v, p, c) ==
  [short_name |-> n, kind |-> k, description |-> d, violation_reason |-> v,
   priority |-> p, created_utc |-> c]

Renumber(lst) == [i \in 1..Len(lst) |-> [lst[i] EXCEPT !["priority"] = i - 1]]

InitialRules(n) ==
  [i \in 1..n |-> RuleData(AllNames[i], "all", <<>>, AllNames[i], i - 1, i)]

ServerList(srv) == srv

ServerAdd(srv, clk, data) ==
  IF data["short_name"] \in NameSet(srv)
  THEN [ok |-> FALSE, server |-> srv, rules |-> <<>>]
  ELSE LET r == RuleData(data["short_name"], data["kind"], data["description"],
                         data["violation_reason"], Len(srv), clk)
       IN [ok |-> TRUE, server |-> Append(srv, r), rules |-> <<r>>]

ServerRemove(srv, data) ==
  Renumber(SelectSeq(srv, LAMBDA r : r["short_name"] # data["short_name"]))

ServerUpdate(srv, data) ==
  LET hit == {i \in 1..Len(srv) : srv[i]["short_name"] = data["old_short_name"]}
  IN IF hit = {} \/ (data["short_name"] # data["old_short_name"]
                     /\ data["short_name"] \in NameSet(srv))
     THEN [ok |-> FALSE, server |-> srv, rules |-> <<>>]
     ELSE LET i == Min(hit)
              r == RuleData(data["short_name"], data["kind"], data["description"],
                            data["violation_reason"], srv[i]["priority"],
                            srv[i]["created_utc"])
          IN [ok |-> TRUE, server |-> [srv EXCEPT ![i] = r], rules |-> <<r>>]

ServerReorder(srv, data) ==
  LET want == SplitComma(Unquote(data["new_rule_order"]))
  IN IF Len(want) = Len(srv) /\ {want[i] : i \in 1..Len(want)} = NameSet(srv)
     THEN LET pick(n) == CHOOSE j \in 1..Len(srv) : srv[j]["short_name"] = n
              new == Renumber([i \in 1..Len(want) |-> srv[pick(want[i])]])
          IN [ok |-> TRUE, server |-> new, rules |-> new]
     ELSE [ok |-> FALSE, server |-> srv, rules |-> <<>>]

Request(api, data, resp) == [api |-> api, data |-> data, resp |-> resp]

(* ---------------- Rule ---------------- *)
InitialFetched(hasData) == hasData

RuleFromName(subreddit, short_name) ==
  [short_name |-> short_name, subreddit |-> subreddit, _fetched |-> InitialFetched(FALSE)]

RuleFromData(subreddit, data) ==
  data @@ [short_name |-> NoValue, subreddit |-> subreddit,
           _fetched |-> InitialFetched(TRUE)]

_make_rule(data) == RuleFromData(Sub, data)

_make_rule_list(data_list) == [i \in 1..Len(data_list) |-> _make_rule(data_list[i])]

ListRequest(srv) == Request("rules", [subreddit |-> Sub], ServerList(srv))

IterReply(req) == [rules |-> _make_rule_list(req.resp), reqs |-> <<req>>]

IterNoRequest(srv) == [rules |-> _make_rule_list(srv), reqs |-> <<>>]

__iter__(srv) == IterReply(ListRequest(srv))

FetchFromKeepFlag(self, it, hit) ==
  IF hit = {}
  THEN [err |-> "ClientException", obj |-> self, reqs |-> it.reqs]
  ELSE [err |-> "",
        obj |-> [(it.rules[Min(hit)] @@ self) EXCEPT !["_fetched"] = self["_fetched"]],
        reqs |-> it.reqs]

FetchFrom(self, it, hit) ==
  IF hit = {}
  THEN [err |-> "ClientException", obj |-> self, reqs |-> it.reqs]
  ELSE [err |-> "",
        obj |-> [(it.rules[Min(hit)] @@ self) EXCEPT !["_fetched"] = TRUE],
        reqs |-> it.reqs]

Lower(s) == [i \in 1..Len(s) |-> IF s[i] = "A" THEN "a" ELSE s[i]]

MatchesIgnoreCase(self, rules) ==
  {i \in 1..Len(rules) : Lower(rules[i]["short_name"]) = Lower(self["short_name"])}

Matches(self, rules) ==
  {i \in 1..Len(rules) : rules[i]["short_name"] = self["short_name"]}

FetchIn(self, it) == FetchFrom(self, it, Matches(self, it.rules))

_fetch(self, srv) == FetchIn(self, __iter__(srv))

NeedsFetch(self, a) == a \notin DOMAIN self /\ ~self["_fetched"]

AfterFetch(a, f) ==
  IF f.err # ""
  THEN [err |-> f.err, obj |-> f.obj, val |-> NoValue, reqs |-> f.reqs]
  ELSE IF a \in DOMAIN f.obj
  THEN [err |-> "", obj |-> f.obj, val |-> f.obj[a], reqs |-> f.reqs]
  ELSE [err |-> "AttributeError", obj |-> f.obj, val |-> NoValue, reqs |-> f.reqs]

getattr(self, a, srv) ==
  IF a \in DOMAIN self
  THEN [err |-> "", obj |-> self, val |-> self[a], reqs |-> <<>>]
  ELSE IF NeedsFetch(self, a)
  THEN AfterFetch(a, _fetch(self, srv))
  ELSE [err |-> "AttributeError", obj |-> self, val |-> NoValue, reqs |-> <<>>]

DeleteData(self) == [r |-> self["subreddit"], short_name |-> self["short_name"]]

DeleteSendInvalidate(self, srv, data) ==
  [self |-> [self EXCEPT !["_fetched"] = FALSE], server |-> ServerRemove(srv, data),
   reqs |-> <<Request("remove_subreddit_rule", data, NoValue)>>,
   ret |-> NoValue, err |-> ""]

DeleteSend(self, srv, data) ==
  [self |-> self, server |-> ServerRemove(srv, data),
   reqs |-> <<Request("remove_subreddit_rule", data, NoValue)>>,
   ret |-> NoValue, err |-> ""]

delete(self, srv) == DeleteSend(self, srv, DeleteData(self))

UpdateFields == <<"description", "kind", "short_name", "violation_reason">>

TheValue(opt) == CHOOSE v \in opt : TRUE

FirstMissing(self, args) ==
  LET idx == {i \in 1..Len(UpdateFields) :
                args[UpdateFields[i]] = {} /\ UpdateFields[i] \notin DOMAIN self}
  IN IF idx = {} THEN NoValue ELSE UpdateFields[Min(idx)]

MergedReasonFromName(g, args, data) ==
  IF g.err # ""
  THEN [err |-> g.err, obj |-> g.obj, data |-> data, reqs |-> g.reqs]
  ELSE IF FirstMissing(g.obj, args) # NoValue
  THEN [err |-> "AttributeError", obj |-> g.obj, data |-> data, reqs |-> g.reqs]
  ELSE [err |-> "", obj |-> g.obj, reqs |-> g.reqs,
        data |-> [n \in {UpdateFields[i] : i \in 1..Len(UpdateFields)} |->
                    IF args[n] # {} THEN TheValue(args[n])
                    ELSE IF n = "violation_reason" THEN g.obj["short_name"]
                    ELSE g.obj[n]] @@ data]

Merged(g, args, data) ==
  IF g.err # ""
  THEN [err |-> g.err, obj |-> g.obj, data |-> data, reqs |-> g.reqs]
  ELSE IF FirstMissing(g.obj, args) # NoValue
  THEN [err |-> "AttributeError", obj |-> g.obj, data |-> data, reqs |-> g.reqs]
  ELSE [err |-> "", obj |-> g.obj, reqs |-> g.reqs,
        data |-> [n \in {UpdateFields[i] : i \in 1..Len(UpdateFields)} |->
                    IF args[n] = {} THEN g.obj[n] ELSE TheValue(args[n])] @@ data]

FillFrom(self, miss, args, data, srv) ==
  Merged(IF miss = NoValue
         THEN [err |-> "", obj |-> self, val |-> NoValue, reqs |-> <<>>]
         ELSE getattr(self, miss, srv),
         args, data)

FillData(self, args, data, srv) == FillFrom(self, FirstMissing(self, args), args, data, srv)

UpdateReplyInPlace(f, resp, reqs) ==
  IF ~resp.ok
  THEN [self |-> f.obj, server |-> resp.server, reqs |-> reqs,
        ret |-> NoValue, err |-> "APIException"]
  ELSE [self |-> RuleFromData(f.obj["subreddit"], resp.rules[1]), server |-> resp.server,
        reqs |-> reqs,
        ret |-> RuleFromData(f.obj["subreddit"], resp.rules[1]), err |-> ""]

UpdateReply(f, resp, reqs) ==
  IF ~resp.ok
  THEN [self |-> f.obj, server |-> resp.server, reqs |-> reqs,
        ret |-> NoValue, err |-> "APIException"]
  ELSE [self |-> f.obj, server |-> resp.server, reqs |-> reqs,
        ret |-> RuleFromData(f.obj["subreddit"], resp.rules[1]), err |-> ""]

UpdatePost(f, resp) ==
  UpdateReply(f, resp, Append(f.reqs, Request("update_subreddit_rule", f.data, resp.rules)))

UpdateSend(f, srv) ==
  IF f.err # ""
  THEN [self |-> f.obj, server |-> srv, reqs |-> f.reqs, ret |-> NoValue, err |-> f.err]
  ELSE UpdatePost(f, ServerUpdate(srv, f.data))

update(self, args, srv) ==
  UpdateSend(FillData(self, args,
                      [r |-> self["subreddit"], old_short_name |-> self["short_name"]],
                      srv),
             srv)

(* ---------------- SubredditRules ---------------- *)
ListIndexNoWrap(lst, i) ==
  IF 0 <= i /\ i < Len(lst) THEN [err |-> "", val |-> lst[i + 1]]
  ELSE [err |-> "IndexError", val |-> NoValue]

ListIndex(lst, i) ==
  IF 0 <= i /\ i < Len(lst) THEN [err |-> "", val |-> lst[i + 1]]
  ELSE IF i < 0 /\ -Len(lst) <= i THEN [err |-> "", val |-> lst[Len(lst) + i + 1]]
  ELSE [err |-> "IndexError", val |-> NoValue]

IntKey(i) == [isint |-> TRUE, val |-> i]
StrKey(k) == [isint |-> FALSE, val |-> k]

IndexInto(it, r) == [ret |-> r.val, err |-> r.err, reqs |-> it.reqs]

ListOf(it, i) == IndexInto(it, ListIndex(it.rules, i))

GetItemEager(short_name, srv) ==
  IF short_name.isint
  THEN ListOf(__iter__(srv), short_name.val)
  ELSE [ret |-> RuleFromName(Sub, short_name.val), err |-> "", reqs |-> __iter__(srv).reqs]

__getitem__(short_name, srv) ==
  IF short_name.isint
  THEN ListOf(__iter__(srv), short_name.val)
  ELSE [ret |-> RuleFromName(Sub, short_name.val), err |-> "", reqs |-> <<>>]

AddDataEmptyReason(args) ==
  [r |-> Sub,
   description |-> IF args.description = {} THEN <<>> ELSE TheValue(args.description),
   kind |-> args.kind,
   short_name |-> args.short_name,
   violation_reason |-> IF args.violation_reason = {} THEN <<>>
                        ELSE TheValue(args.violation_reason)]

AddData(args) ==
  [r |-> Sub,
   description |-> IF args.description = {} THEN <<>> ELSE TheValue(args.description),
   kind |-> args.kind,
   short_name |-> args.short_name,
   violation_reason |-> IF args.violation_reason = {} THEN args.short_name
                        ELSE TheValue(args.violation_reason)]

AddReply(data, resp) ==
  IF ~resp.ok
  THEN [server |-> resp.server, reqs |-> <<Request("add_subreddit_rule", data, resp.rules)>>,
        ret |-> NoValue, err |-> "APIException"]
  ELSE [server |-> resp.server, reqs |-> <<Request("add_subreddit_rule", data, resp.rules)>>,
        ret |-> _make_rule(resp.rules[1]), err |-> ""]

AddSend(data, srv, clk) == AddReply(data, ServerAdd(srv, clk, data))

add(args, srv, clk) == AddSend(AddData(args), srv, clk)

OrderStringUnquoted(rule_list) == Join(<<",">>, NamesOf(rule_list))

OrderString(rule_list) == quote(Join(<<",">>, NamesOf(rule_list)), {","})

ReorderData(rule_list) == [r |-> Sub, new_rule_order |-> OrderString(rule_list)]

ReorderReply(data, resp) ==
  IF ~resp.ok
  THEN [server |-> resp.server,
        reqs |-> <<Request("reorder_subreddit_rules", data, resp.rules)>>,
        ret |-> NoValue, err |-> "APIException"]
  ELSE [server |-> resp.server,
        reqs |-> <<Request("reorder_subreddit_rules", data, resp.rules)>>,
        ret |-> _make_rule_list(resp.rules), err |-> ""]

ReorderSend(data, srv) == ReorderReply(data, ServerReorder(srv, data))

reorder(rule_list, srv) == ReorderSend(ReorderData(rule_list), srv)

(* ---------------- inputs ---------------- *)
AddArgs ==
  {[short_name |-> n, kind |-> v[1], description |-> v[2], violation_reason |-> v[3]] :
     n \in Names,
     v \in {<<"all", {}, {}>>, <<"link", {<<"d">>}, {}>>, <<"comment", {}, {<<"v">>}>>}}

UpdateArgs ==
  {[description |-> {}, kind |-> {}, short_name |-> {}, violation_reason |-> {}],
   [description |-> {<<"d">>}, kind |-> {}, short_name |-> {}, violation_reason |-> {}],
   [description |-> {}, kind |-> {"link"}, short_name |-> {}, violation_reason |-> {<<"v">>}]}
  \cup {[description |-> {}, kind |-> {}, short_name |-> {n}, violation_reason |-> {}] :
          n \in Names}
  \cup {[description |-> {<<"d">>}, kind |-> {"comment"}, short_name |-> {n},
         violation_reason |-> {<<"v">>}] : n \in Names}

Orderings(lst) ==
  UNION {{[i \in 1..n |-> lst[p[i]]] :
            p \in {q \in [1..n -> 1..Len(lst)] : \A i, j \in 1..n : i # j => q[i] # q[j]}} :
         n \in {m \in 0..Len(lst) : m >= Len(lst) - 1}}

Alloc(heap, obj) == IF Len(heap) < MaxObjs THEN Append(heap, obj) ELSE heap

ListReqs(reqs) == Len(SelectSeq(reqs, LAMBDA q : q.api = "rules"))

Op(op, target, args, before, pre, reqs, ret, err) ==
  [op |-> op, target |-> target, args |-> args, before |-> before, pre |-> pre,
   reqs |-> reqs, ret |-> ret, err |-> err]

(* ---------------- state machine ---------------- *)
Init ==
  /\ \E n \in 0..MaxRules :
       server = InitialRules(IF n <= Len(AllNames) THEN n ELSE Len(AllNames))
  /\ clock = Len(server) + 1
  /\ objs = <<>>
  /\ last = Op("init", 0, NoValue, NoValue, server, <<>>, NoValue, "")
  /\ nOps = 0
  /\ nIter = 0
  /\ nListReq = 0

Iter ==
  /\ nOps < MaxOps
  /\ LET it == __iter__(server)
     IN /\ objs' = it.rules
        /\ last' = Op("iter", 0, NoValue, NoValue, server, it.reqs, it.rules, "")
        /\ nListReq' = nListReq + ListReqs(it.reqs)
  /\ nOps' = nOps + 1
  /\ nIter' = nIter + 1
  /\ UNCHANGED <<server, clock>>

GetItemInt(i) ==
  /\ nOps < MaxOps
  /\ LET g == __getitem__(IntKey(i), server)
     IN /\ objs' = IF g.err = "" THEN Alloc(objs, g.ret) ELSE objs
        /\ last' = Op("getitem_int", 0, i, NoValue, server, g.reqs, g.ret, g.err)
        /\ nListReq' = nListReq + ListReqs(g.reqs)
  /\ nOps' = nOps + 1
  /\ nIter' = nIter + 1
  /\ UNCHANGED <<server, clock>>

GetItemStr(k) ==
  /\ nOps < MaxOps
  /\ LET g == __getitem__(StrKey(k), server)
     IN /\ objs' = Alloc(objs, g.ret)
        /\ last' = Op("getitem_str", 0, k, NoValue, server, g.reqs, g.ret, g.err)
  /\ nOps' = nOps + 1
  /\ UNCHANGED <<server, clock, nIter, nListReq>>

AttrRead(o, a) ==
  /\ nOps < MaxOps
  /\ LET g == getattr(objs[o], a, server)
     IN /\ objs' = [objs EXCEPT ![o] = g.obj]
        /\ last' = Op("getattr", o, a, objs[o], server, g.reqs, g.val, g.err)
  /\ nOps' = nOps + 1
  /\ UNCHANGED <<server, clock, nIter, nListReq>>

Delete(o) ==
  /\ nOps < MaxOps
  /\ LET d == delete(objs[o], server)
     IN /\ objs' = [objs EXCEPT ![o] = d.self]
        /\ server' = d.server
        /\ last' = Op("delete", o, NoValue, objs[o], server, d.reqs, d.ret, d.err)
  /\ nOps' = nOps + 1
  /\ UNCHANGED <<clock, nIter, nListReq>>

Update(o, args) ==
  /\ nOps < MaxOps
  /\ LET u == update(objs[o], args, server)
     IN /\ objs' = IF u.err = "" THEN Alloc([objs EXCEPT ![o] = u.self], u.ret)
                   ELSE [objs EXCEPT ![o] = u.self]
        /\ server' = u.server
        /\ last' = Op("update", o, args, objs[o], server, u.reqs, u.ret, u.err)
  /\ nOps' = nOps + 1
  /\ UNCHANGED <<clock, nIter, nListReq>>

Add(args) ==
  /\ nOps < MaxOps
  /\ Len(server) < MaxRules
  /\ LET r == add(args, server, clock)
     IN /\ objs' = IF r.err = "" THEN Alloc(objs, r.ret) ELSE objs
        /\ server' = r.server
        /\ clock' = IF r.err = "" THEN clock + 1 ELSE clock
        /\ last' = Op("add", 0, args, NoValue, server, r.reqs, r.ret, r.err)
  /\ nOps' = nOps + 1
  /\ UNCHANGED <<nIter, nListReq>>

Reorder(rule_list) ==
  /\ nOps < MaxOps
  /\ LET r == reorder(rule_list, server)
     IN /\ server' = r.server
        /\ last' = Op("reorder", 0, rule_list, NoValue, server, r.reqs, r.ret, r.err)
  /\ nOps' = nOps + 1
  /\ UNCHANGED <<clock, objs, nIter, nListReq>>

Next ==
  \/ Iter
  \/ \E i \in -(Len(server) + 1)..Len(server) : GetItemInt(i)
  \/ \E k \in Names : GetItemStr(k)
  \/ \E o \in 1..Len(objs), a \in ReadAttrs : AttrRead(o, a)
  \/ \E o \in 1..Len(objs) : Delete(o)
  \/ \E o \in 1..Len(objs), args \in UpdateArgs : Update(o, args)
  \/ \E args \in AddArgs : Add(args)
  \/ \E rule_list \in Orderings(objs) : Reorder(rule_list)

Spec == Init /\ [][Next]_vars

(* ---------------- vocabulary of the properties ---------------- *)
Target == objs[last.target]
Writes(api) == SelectSeq(last.reqs, LAMBDA q : q.api = api)
FieldSet == {UpdateFields[i] : i \in 1..Len(UpdateFields)}
Omitted == {n \in FieldSet : last.args[n] = {}}
NoArgs == Omitted = FieldSet
Listed(lst, n) == {i \in 1..Len(lst) : lst[i]["short_name"] = n}
SameData(obj, data) == \A k \in DOMAIN data : k \in DOMAIN obj /\ obj[k] = data[k]
IsPermutationOfCurrent(lst) ==
  /\ Len(lst) = Len(last.pre)
  /\ NameSet(lst) = NameSet(last.pre)
Commas(s) == Len(SelectSeq(s, LAMBDA c : c = ","))

(* C1 (as stated): on a stub, the first attribute access issues exactly one
   fetch of the rule list and flips it to fetched; every access on a fetched
   instance issues no fetch; the flag never goes back. *)
C1_EveryFirstAccessFetches ==
  last.op = "getattr" =>
    /\ ~last.before["_fetched"] => ListReqs(last.reqs) = 1 /\ Target["_fetched"]
    /\ last.before["_fetched"] => last.reqs = <<>> /\ Target["_fetched"]

(* C1 (amended): a read on an unfetched stub of an attribute it does not yet
   hold issues exactly one list-rules fetch; the stub flips to fetched when a
   rule of its short_name is listed, and otherwise the read fails with the
   not-found error and the stub stays as it was (so the next such read fetches
   again).  Reads of attributes already held, and every read on a fetched
   instance, issue no request and change nothing.  No operation turns a
   fetched instance back to unfetched. *)
C1_LazyFetch ==
  /\ last.op = "getattr" =>
       /\ (last.before["_fetched"] \/ last.args \in DOMAIN last.before) =>
            last.reqs = <<>> /\ Target = last.before
       /\ (~last.before["_fetched"] /\ last.args \notin DOMAIN last.before) =>
            /\ Len(last.reqs) = 1 /\ ListReqs(last.reqs) = 1
            /\ Listed(last.pre, last.before["short_name"]) # {} => Target["_fetched"]
            /\ Listed(last.pre, last.before["short_name"]) = {} =>
                 last.err = "ClientException" /\ Target = last.before
  /\ (last.target > 0 /\ last.before["_fetched"]) => Target["_fetched"]

C1_Witness ==
  /\ last.op = "getattr"
  /\ ~last.before["_fetched"]
  /\ Target["_fetched"]
  /\ ListReqs(last.reqs) = 1

(* C2 (as stated): the first iteration issues one list-rules request and every
   later iteration or integer lookup is served from a cache. *)
C2_IterationsShareOneRequest == nListReq = (IF nIter = 0 THEN 0 ELSE 1)

(* C2 (amended): the collection keeps no cache: every iteration and every
   integer lookup issues exactly one list-rules request and yields the rules
   the service lists at that moment. *)
C2_EveryIterationRequests ==
  /\ nListReq = nIter
  /\ last.op \in {"iter", "getitem_int"} =>
       /\ Len(last.reqs) = 1
       /\ last.reqs[1].api = "rules"
       /\ last.reqs[1].resp = last.pre
  /\ last.op = "iter" => NamesOf(last.ret) = NamesOf(last.pre)

C2_Witness == last.op = "iter" /\ nIter = 2 /\ nListReq = 2

(* C3: a string lookup returns an unfetched stub carrying the key and this
   collection's subreddit and issues no request; while a stub is unfetched a
   list-rules fetch is issued for it only by an access to an attribute it does
   not yet hold (a plain read, or update() filling an omitted field), and the
   only other requests about it are the write requests of delete and update. *)
C3_StringLookupIsLazy ==
  /\ last.op = "getitem_str" =>
       /\ last.reqs = <<>>
       /\ last.err = ""
       /\ last.ret = [short_name |-> last.args, subreddit |-> Sub, _fetched |-> FALSE]
  /\ (last.target > 0 /\ ~last.before["_fetched"] /\ ListReqs(last.reqs) > 0) =>
       \/ last.op = "getattr" /\ last.args \notin DOMAIN last.before
       \/ last.op = "update" /\ \E n \in Omitted : n \notin DOMAIN last.before
  /\ (last.target > 0 /\ ~last.before["_fetched"] /\ last.op = "getattr"
        /\ last.args \in DOMAIN last.before) => last.reqs = <<>>

C3_Witness ==
  /\ last.op = "getitem_str"
  /\ last.args \notin NameSet(server)
  /\ last.ret["short_name"] = last.args
  /\ ~last.ret["_fetched"]
  /\ nListReq = 0

(* C4: with N rules listed, an integer lookup i returns the rule at position i
   for 0 <= i < N, the rule at position N+i for -N <= i < 0, and fails with
   IndexError for i >= N or i < -N. *)
C4_IntegerLookup ==
  last.op = "getitem_int" =>
    /\ (0 <= last.args /\ last.args < Len(last.pre)) =>
         last.err = "" /\ SameData(last.ret, last.pre[last.args + 1])
    /\ (last.args < 0 /\ -Len(last.pre) <= last.args) =>
         last.err = "" /\ SameData(last.ret, last.pre[Len(last.pre) + last.args + 1])
    /\ (last.args >= Len(last.pre) \/ last.args < -Len(last.pre)) =>
         last.err = "IndexError"

C4_Witness ==
  /\ last.op = "getitem_int"
  /\ last.args = -1
  /\ Len(last.pre) = 2
  /\ last.err = ""
  /\ last.ret["short_name"] = last.pre[2]["short_name"]

(* C5: a fetch whose short_name matches no listed rule exactly (case matters)
   fails with the not-found error and leaves the stub as it was; when a rule
   matches, every attribute of the first match is copied and the stub is
   marked fetched. *)
C5_FetchOutcome ==
  (last.op \in {"getattr", "update"} /\ Len(last.reqs) >= 1 /\ last.reqs[1].api = "rules") =>
    /\ Listed(last.reqs[1].resp, last.before["short_name"]) = {} =>
         last.err = "ClientException" /\ Target = last.before
    /\ Listed(last.reqs[1].resp, last.before["short_name"]) # {} =>
         /\ last.err # "ClientException"
         /\ Target["_fetched"]
         /\ Target["subreddit"] = Sub
         /\ SameData(Target,
              last.reqs[1].resp[Min(Listed(last.reqs[1].resp, last.before["short_name"]))])

C5_Witness ==
  /\ last.op = "getattr"
  /\ last.err = "ClientException"
  /\ last.before["short_name"] = <<"a">>
  /\ <<"A">> \in NameSet(last.pre)
  /\ ~Target["_fetched"]
  /\ DOMAIN Target = {"short_name", "subreddit", "_fetched"}

(* C6 (as stated): update sends one write request carrying old_short_name and
   the four merged fields, and update() with no arguments returns an entity
   whose created_utc, description, kind, priority, short_name, subreddit and
   violation_reason equal the original's. *)
C6_UpdateAlwaysWritesAndEchoes ==
  last.op = "update" =>
    /\ Len(Writes("update_subreddit_rule")) = 1
    /\ (NoArgs /\ last.err = "") =>
         \A k \in {"created_utc", "description", "kind", "priority", "short_name",
                   "subreddit", "violation_reason"} : last.ret[k] = Target[k]

(* C6 (amended): unless the lazy fetch of an omitted field fails with the
   not-found error (then nothing is written and the entity is untouched),
   update sends exactly one write request carrying the subreddit, the entity's
   short_name as old_short_name and the four fields, each the supplied
   argument or else the entity's current value; when update() with no
   arguments returns, the new entity's description, kind, short_name,
   subreddit and violation_reason equal the original's, and its created_utc
   and priority are those the service holds for that rule. *)
C6_UpdateRequest ==
  last.op = "update" =>
    /\ last.err = "ClientException" =>
         /\ Writes("update_subreddit_rule") = <<>>
         /\ Target = last.before
         /\ ~last.before["_fetched"]
         /\ \E n \in Omitted : n \notin DOMAIN last.before
         /\ Listed(last.pre, last.before["short_name"]) = {}
    /\ last.err # "ClientException" =>
         /\ Len(Writes("update_subreddit_rule")) = 1
         /\ Writes("update_subreddit_rule")[1].data["r"] = Sub
         /\ Writes("update_subreddit_rule")[1].data["old_short_name"]
              = last.before["short_name"]
         /\ \A n \in FieldSet :
              Writes("update_subreddit_rule")[1].data[n]
                = (IF n \in Omitted THEN Target[n] ELSE TheValue(last.args[n]))
    /\ (NoArgs /\ last.err = "") =>
         /\ \A k \in {"description", "kind", "short_name", "subreddit", "violation_reason"} :
              last.ret[k] = Target[k]
         /\ \A i \in Listed(last.pre, last.before["short_name"]) :
              /\ last.ret["created_utc"] = last.pre[i]["created_utc"]
              /\ last.ret["priority"] = last.pre[i]["priority"]

C6_Witness ==
  /\ last.op = "update"
  /\ NoArgs
  /\ last.err = ""
  /\ ~last.before["_fetched"]
  /\ last.ret["description"] = Target["description"]
  /\ Len(Writes("update_subreddit_rule")) = 1

(* C7: update never changes the instance it is called on: its short_name and
   every attribute it held before the call are the same afterwards (a stub
   may only gain the attributes its lazy fetch loads); the request is
   addressed by the old short_name; the returned entity carries the merged
   values, so after update(short_name=new_key) its short_name is new_key. *)
C7_UpdateReturnsNewEntity ==
  last.op = "update" =>
    /\ Target["short_name"] = last.before["short_name"]
    /\ \A k \in DOMAIN last.before \ {"_fetched"} : Target[k] = last.before[k]
    /\ last.before["_fetched"] => Target = last.before
    /\ last.err = "" =>
         /\ Writes("update_subreddit_rule")[1].data["old_short_name"]
              = last.before["short_name"]
         /\ \A n \in FieldSet :
              last.ret[n] = (IF n \in Omitted THEN Target[n] ELSE TheValue(last.args[n]))
         /\ last.ret["subreddit"] = Sub

C7_Witness ==
  /\ last.op = "update"
  /\ last.err = ""
  /\ last.args["short_name"] # {}
  /\ last.ret["short_name"] = TheValue(last.args["short_name"])
  /\ last.ret["short_name"] # last.before["short_name"]
  /\ Target["short_name"] = last.before["short_name"]
  /\ last.before["_fetched"]

(* C8 (as stated): for a permutation L of the current rules, reorder(L) sends
   one write request whose order parameter is the comma-joined short_names of
   L and returns the rules in the order of L with priorities 0..N-1 and the
   container attached. *)
C8_OrderIsPlainJoin ==
  (last.op = "reorder" /\ IsPermutationOfCurrent(last.args)) =>
    /\ Len(last.reqs) = 1
    /\ last.reqs[1].data["new_rule_order"] = Join(<<",">>, NamesOf(last.args))
    /\ last.err = ""
    /\ NamesOf(last.ret) = NamesOf(last.args)

(* C8 (amended): for a permutation L of the current rules, reorder(L) sends
   one write request whose order parameter is the percent-encoded form of the
   comma-joined short_names of L (the separating commas left as they are, a
   space sent as %20), and returns the same rules in exactly the order of L
   with priorities 0..N-1 and the container attached to each. *)
C8_ReorderEncodedOrder ==
  (last.op = "reorder" /\ IsPermutationOfCurrent(last.args)) =>
    /\ Len(last.reqs) = 1
    /\ last.reqs[1].api = "reorder_subreddit_rules"
    /\ last.reqs[1].data["r"] = Sub
    /\ Unquote(last.reqs[1].data["new_rule_order"]) = Join(<<",">>, NamesOf(last.args))
    /\ \A i \in 1..Len(last.reqs[1].data["new_rule_order"]) :
         last.reqs[1].data["new_rule_order"][i] \in AlwaysSafe \cup {",", "%"}
    /\ Len(last.args) > 0 =>
         Commas(last.reqs[1].data["new_rule_order"]) = Len(last.args) - 1
    /\ last.err = ""
    /\ NamesOf(last.ret) = NamesOf(last.args)
    /\ NameSet(last.ret) = NameSet(last.pre)
    /\ \A i \in 1..Len(last.ret) :
         /\ last.ret[i]["priority"] = i - 1
         /\ last.ret[i]["subreddit"] = Sub
         /\ \A j \in Listed(last.pre, last.ret[i]["short_name"]) :
              /\ last.ret[i]["created_utc"] = last.pre[j]["created_utc"]
              /\ last.ret[i]["description"] = last.pre[j]["description"]

C8_Witness ==
  /\ last.op = "reorder"
  /\ last.err = ""
  /\ Len(last.ret) = 2
  /\ NamesOf(last.args) # NamesOf(last.pre)
  /\ NamesOf(last.ret) = NamesOf(last.args)
  /\ <<"a", " ", "b">> \in NameSet(last.ret)

(* C9: add(key, kind) without a violation_reason sends a create request whose
   violation_reason is key and whose description is empty; a supplied
   violation_reason or description is sent unchanged; the entity returned has
   that violation_reason and the container attached. *)
C9_AddDefaults ==
  last.op = "add" =>
    /\ Len(last.reqs) = 1
    /\ last.reqs[1].api = "add_subreddit_rule"
    /\ last.reqs[1].data["r"] = Sub
    /\ last.reqs[1].data["short_name"] = last.args.short_name
    /\ last.reqs[1].data["kind"] = last.args.kind
    /\ last.reqs[1].data["violation_reason"]
         = (IF last.args.violation_reason = {} THEN last.args.short_name
            ELSE TheValue(last.args.violation_reason))
    /\ last.reqs[1].data["description"]
         = (IF last.args.description = {} THEN <<>> ELSE TheValue(last.args.description))
    /\ last.err = "" =>
         /\ last.ret["short_name"] = last.args.short_name
         /\ last.ret["violation_reason"] = last.reqs[1].data["violation_reason"]
         /\ last.ret["subreddit"] = Sub

C9_Witness ==
  /\ last.op = "add"
  /\ last.err = ""
  /\ last.args.violation_reason = {}
  /\ last.ret["violation_reason"] = last.args.short_name
  /\ last.ret["description"] = <<>>

(* C10: delete sends exactly one remove request naming the subreddit and the
   entity's current short_name, returns nothing, and changes no local object
   (the entity, its fetched flag, and every other rule held are as before);
   an iteration made right after it does not list the deleted rule. *)
C10_DeleteStep ==
  /\ (last'.op = "delete" /\ nOps' = nOps + 1) =>
       /\ objs' = objs
       /\ Len(last'.reqs) = 1
       /\ last'.reqs[1].api = "remove_subreddit_rule"
       /\ last'.reqs[1].data = [r |-> Sub, short_name |-> last'.before["short_name"]]
       /\ last'.ret = NoValue
       /\ last'.err = ""
       /\ last'.before = objs[last'.target]
  /\ (last.op = "delete" /\ last'.op = "iter" /\ nOps' = nOps + 1) =>
       last.before["short_name"] \notin NameSet(last'.ret)

(* C10: every step satisfies the delete contract above. *)
C10_Delete == [][C10_DeleteStep]_vars

C10_Witness ==
  /\ last.op = "delete"
  /\ last.before["short_name"] \in NameSet(last.pre)
  /\ last.before["short_name"] \notin NameSet(server)
  /\ Target = last.before
  /\ Len(objs) = 2
====
